---- MODULE Spec2Model ----
(***************************************************************************)
(* A model of kopexa-grc/x.                                                *)
(* Package azauth (src/azauth/token.go):                                   *)
(*   - retryableManagedIdentityCredential: GetToken / tryGetToken          *)
(*   - BuildChainedToken and GetDefaultChainedToken                        *)
(*   - GetTokenFromCredential                                              *)
(* Package multierr: Errors.Add, Errors.Deduplicate, Errors.IsEmpty        *)
(* Package echolog: LoggingMiddleware                                      *)
(* Package cookie: New, expiresTime                                        *)
(* Each component has its own specification; the variables of the other    *)
(* components stay at their initial values.                                *)
(***************************************************************************)
EXTENDS Integers, Sequences, FiniteSets, TLC

VARIABLES
    t,      \* the retryableManagedIdentityCredential instance: attempts, timeout
    cfg,    \* the values the instance was constructed with (never changes)
    now,    \* the clock context deadlines are measured on
    call,   \* per caller: the position and locals of its GetToken call
    opts,   \* the resolvers of the current BuildChainedToken call
    build,  \* the position and locals of the BuildChainedToken call
    gets,   \* member GetToken invocations made by the built chain so far
    mat,    \* the GetTokenFromCredential call: position, arguments, result
    me,     \* a multierr.Errors collection, what was passed to it, its last call
    mw,     \* the echolog middleware: its Config, the last request it handled
    ck      \* the last call of cookie.New: arguments, time of the call, result

vars == <<t, cfg, now, call, opts, build, gets, mat, me, mw, ck>>
retryVars == <<t, cfg, now, call>>
chainVars == <<opts, build, gets>>
azVars == <<t, cfg, now, call, opts, build, gets, mat>>
libVars == <<me, mw, ck>>

-----------------------------------------------------------------------------
(* Bounds of the model *)

MaxAttempts == 3
MaxTimeout == 2
MaxTime == 2
MaxResolvers == 3
MaxGets == 2
\* errors and nils passed to one Errors collection, over all its Add calls
MaxPassed == 3
\* attempts of a retry wrapper that two goroutines share: one attempt of each
\* call is enough to interleave an attempt with the other call's success
ConcurrentAttempts == 1

-----------------------------------------------------------------------------
(* Values *)

\* Go's nil error
Nil == [kind |-> "nil"]

\* azcore.AccessToken{} and the tokens the identity endpoint hands out
ZeroToken == [Token |-> "", ExpiresOn |-> 0]
Tokens == {[Token |-> "T1", ExpiresOn |-> 1], [Token |-> "T2", ExpiresOn |-> 2]}

\* a context.Context, as far as its deadline goes
Background == [has |-> FALSE, at |-> 0]
Deadline(d) == [has |-> TRUE, at |-> d]
CallerContexts == {Background} \cup {Deadline(d) : d \in 0..MaxTime}

\* the errors mic.GetToken can return
DeadlineText == "context deadline exceeded"
AuthFailed == [kind |-> "AuthenticationFailedError", msg |-> "invalid client secret"]
WrappedDeadlineText == "managed identity: Get imds: context deadline exceeded"
AuthFailedDeadline == [kind |-> "AuthenticationFailedError", msg |-> WrappedDeadlineText]
PlainDeadline == [kind |-> "DeadlineExceeded", msg |-> DeadlineText]
Unavailable == [kind |-> "credentialUnavailableError", msg |-> "no managed identity endpoint found"]
MicErrors == {AuthFailed, AuthFailedDeadline, PlainDeadline, Unavailable}

\* what one invocation of mic.GetToken returns: (tk, err)
MicOutcomes ==
    {[tk |-> tk, err |-> Nil] : tk \in Tokens}
        \cup {[tk |-> ZeroToken, err |-> e] : e \in MicErrors}

Callers == {"a", "b"}

-----------------------------------------------------------------------------
(* Helpers of the retry wrapper *)

\* context.WithTimeout(parent, d) at time n: the deadline is n + d unless the
\* parent's is earlier
WithTimeout(parent, d, n) ==
    IF parent.has /\ parent.at < n + d THEN parent ELSE Deadline(n + d)

CoerceAttemptsNone(a) == a
\* if t.attempts < 1 { t.attempts = 1 }
CoerceAttempts(a) == IF a < 1 THEN 1 ELSE a

LoopCondOffByOne(i, a) == i <= a
\* for i := 0; i < t.attempts; i++
LoopCond(i, a) == i < a

JoinDropFirst(es) ==
    IF Len(es) <= 1 THEN Nil ELSE [kind |-> "joined", causes |-> Tail(es)]
\* errors.Join(errs...): nil errors are dropped; nil when nothing is left
Join(es) ==
    LET kept == SelectSeq(es, LAMBDA e : e # Nil)
    IN  IF kept = <<>> THEN Nil ELSE [kind |-> "joined", causes |-> kept]

\* strings.Contains(s, substr), over the messages of the model
Contains(s, substr) ==
    \/ s = substr
    \/ s = WrappedDeadlineText /\ substr = DeadlineText

\* errors.As(err, &authFailedErr) && strings.Contains(err.Error(), "context deadline exceeded")
IsTimedOutAuthFailure(e) ==
    e.kind = "AuthenticationFailedError" /\ Contains(e.msg, DeadlineText)

\* azidentity.NewCredentialUnavailableError("managed identity request timed out")
TimedOut == [kind |-> "credentialUnavailableError", msg |-> "managed identity request timed out"]

\* every error that tells of an exceeded deadline is reclassified
ClassifyAnyDeadline(e) == IF e # Nil /\ Contains(e.msg, DeadlineText) THEN TimedOut ELSE e
\* the error tryGetToken returns in the timeout > 0 branch
Classify(e) == IF e # Nil /\ IsTimedOutAuthFailure(e) THEN TimedOut ELSE e

RelaxedTimeoutKept(timeout) == timeout
\* t.timeout = 0 after a success in the timeout > 0 branch
RelaxedTimeout(timeout) == 0

TimeoutAfterAlwaysRelaxed(timeout, err) == RelaxedTimeout(timeout)
\* if err != nil { ... } else { t.timeout = 0 }
TimeoutAfter(timeout, err) == IF err = Nil THEN RelaxedTimeout(timeout) ELSE timeout

SuccessResultZero(tk) == [tk |-> ZeroToken, err |-> Nil]
\* return tk, nil
SuccessResult(tk) == [tk |-> tk, err |-> Nil]

\* return azcore.AccessToken{}, errors.Join(errs...)
ExhaustedResult(es) == [tk |-> ZeroToken, err |-> Join(es)]

NoResult == [tk |-> ZeroToken, err |-> Nil]

IdleCall ==
    [pc |-> "idle", ctx |-> Background, i |-> 0, errs |-> <<>>,
     ctx1 |-> Background, c |-> Background, ret |-> NoResult, hist |-> <<>>]

\* the context of the attempt before, once there is one
AttemptParentPrevious(cl) == IF cl.i > 0 THEN cl.c ELSE cl.ctx
\* tk, err := t.tryGetToken(ctx, opts): the ctx of GetToken
AttemptParent(cl) == cl.ctx

-----------------------------------------------------------------------------
(* retryableManagedIdentityCredential.GetToken, one caller p *)

\* entry: coerce attempts, errs := []error{}
GetToken(p) ==
    /\ call[p].pc = "idle"
    /\ \E cx \in CallerContexts :
        call' = [call EXCEPT ![p] = [IdleCall EXCEPT !.pc = "loop", !.ctx = cx]]
    /\ t' = [t EXCEPT !.attempts = CoerceAttempts(@)]
    /\ UNCHANGED <<cfg, now, chainVars, mat, libVars>>

\* the loop head: another attempt, or the exhausted return
Loop(p) ==
    /\ call[p].pc = "loop"
    /\ IF LoopCond(call[p].i, t.attempts)
       THEN call' = [call EXCEPT ![p].pc = "l283"]
       ELSE call' = [call EXCEPT ![p].pc = "done",
                                 ![p].ret = ExhaustedResult(call[p].errs)]
    /\ UNCHANGED <<t, cfg, now, chainVars, mat, libVars>>

\* tryGetToken line 283: ctx, cancel := context.WithTimeout(ctx, t.timeout)
TryDerive(p) ==
    /\ call[p].pc = "l283"
    /\ call' = [call EXCEPT ![p].pc = "l286",
                            ![p].ctx1 = WithTimeout(AttemptParent(call[p]), t.timeout, now)]
    /\ UNCHANGED <<t, cfg, now, chainVars, mat, libVars>>

\* tryGetToken line 286: if t.timeout > 0; the else branch hands ctx to mic
TryBranch(p) ==
    /\ call[p].pc = "l286"
    /\ IF t.timeout > 0
       THEN call' = [call EXCEPT ![p].pc = "l287"]
       ELSE call' = [call EXCEPT ![p].pc = "l303", ![p].c = call[p].ctx1]
    /\ UNCHANGED <<t, cfg, now, chainVars, mat, libVars>>

\* tryGetToken line 287: c, cancel := context.WithTimeout(ctx, t.timeout)
TryDeriveInner(p) ==
    /\ call[p].pc = "l287"
    /\ call' = [call EXCEPT ![p].pc = "l289",
                            ![p].c = WithTimeout(call[p].ctx1, t.timeout, now)]
    /\ UNCHANGED <<t, cfg, now, chainVars, mat, libVars>>

\* what one attempt did: what mic.GetToken returned (raw) under which context
\* (c), in which branch of tryGetToken (timed: timeout > 0), and the error
\* tryGetToken returned (err)
Attempted(cl, out, err) ==
    [raw |-> out, err |-> err, c |-> cl.c, timed |-> cl.pc = "l289"]

\* a failure of kind AuthenticationFailedError ends the call
AfterTryStopsOnAuthFailed(p, out, err) ==
    LET h == Append(call[p].hist, Attempted(call[p], out, err))
    IN  IF err = Nil
        THEN [call EXCEPT ![p].pc = "done", ![p].ret = SuccessResult(out.tk),
                          ![p].hist = h]
        ELSE IF err.kind = "AuthenticationFailedError"
        THEN [call EXCEPT ![p].pc = "done", ![p].hist = h,
                          ![p].ret = ExhaustedResult(Append(call[p].errs, err))]
        ELSE [call EXCEPT ![p].pc = "loop", ![p].errs = Append(@, err),
                          ![p].i = @ + 1, ![p].hist = h]
\* a failure under a caller's context that has expired ends the call
AfterTryStopsOnExpired(p, out, err) ==
    LET h == Append(call[p].hist, Attempted(call[p], out, err))
    IN  IF err = Nil
        THEN [call EXCEPT ![p].pc = "done", ![p].ret = SuccessResult(out.tk),
                          ![p].hist = h]
        ELSE IF call[p].ctx.has /\ call[p].ctx.at <= now
        THEN [call EXCEPT ![p].pc = "done", ![p].hist = h,
                          ![p].ret = ExhaustedResult(Append(call[p].errs, err))]
        ELSE [call EXCEPT ![p].pc = "loop", ![p].errs = Append(@, err),
                          ![p].i = @ + 1, ![p].hist = h]
\* back in GetToken with tryGetToken's (tk, err): return, or record and loop
AfterTry(p, out, err) ==
    LET h == Append(call[p].hist, Attempted(call[p], out, err))
    IN  IF err = Nil
        THEN [call EXCEPT ![p].pc = "done", ![p].ret = SuccessResult(out.tk),
                          ![p].hist = h]
        ELSE [call EXCEPT ![p].pc = "loop", ![p].errs = Append(@, err),
                          ![p].i = @ + 1, ![p].hist = h]

\* tryGetToken lines 289-300: mic.GetToken(c, opts) under the inner context
TryWithTimeout(p) ==
    /\ call[p].pc = "l289"
    /\ \E out \in MicOutcomes :
        /\ call' = AfterTry(p, out, Classify(out.err))
        /\ t' = [t EXCEPT !.timeout = TimeoutAfter(@, out.err)]
    /\ UNCHANGED <<cfg, now, chainVars, mat, libVars>>

\* tryGetToken line 303: mic.GetToken(ctx, opts)
TryNoTimeout(p) ==
    /\ call[p].pc = "l303"
    /\ \E out \in MicOutcomes : call' = AfterTry(p, out, out.err)
    /\ UNCHANGED <<t, cfg, now, chainVars, mat, libVars>>

\* the caller takes the result; the instance is ready for the next call
Return(p) ==
    /\ call[p].pc = "done"
    /\ call' = [call EXCEPT ![p] = IdleCall]
    /\ UNCHANGED <<t, cfg, now, chainVars, mat, libVars>>

\* time passes
Tick ==
    /\ now < MaxTime
    /\ now' = now + 1
    /\ UNCHANGED <<t, cfg, call, chainVars, mat, libVars>>

Step(p) ==
    \/ GetToken(p)
    \/ Loop(p)
    \/ TryDerive(p)
    \/ TryBranch(p)
    \/ TryDeriveInner(p)
    \/ TryWithTimeout(p)
    \/ TryNoTimeout(p)
    \/ Return(p)

-----------------------------------------------------------------------------
(* BuildChainedToken *)

\* a nil azcore.TokenCredential
NilCred == [type |-> "nil"]
\* the credential a resolver hands over, named by the resolver's position
Static(k) == [type |-> "static", id |-> k]
\* the error of the resolver at position k
ResolverError(k) == [kind |-> "resolver", id |-> k]

\* what the TokenResolverFn at position k may return: (cred, err)
ResolverResults(k) ==
    {[cred |-> c, err |-> e] : c \in {Static(k), NilCred}, e \in {Nil, ResolverError(k)}}

ResolverSeqs ==
    UNION {{rs \in [1..n -> UNION {ResolverResults(k) : k \in 1..n}] :
                \A k \in 1..n : rs[k] \in ResolverResults(k)} : n \in 0..MaxResolvers}

\* a nil *azidentity.ChainedTokenCredential
NilChain == [type |-> "nil"]
\* the error of azidentity.NewChainedTokenCredential
AggregationError == [kind |-> "NewChainedTokenCredential"]

\* azidentity.NewChainedTokenCredential(sources, nil), ok: whether it accepts
\* sources (the call is external: either outcome is allowed for any list)
NewChainedTokenCredential(sources, ok) ==
    IF ok
    THEN [chain |-> [type |-> "ChainedTokenCredential", sources |-> sources], err |-> Nil]
    ELSE [chain |-> NilChain, err |-> AggregationError]

NoAggregation == [called |-> FALSE, sources |-> <<>>, after |-> 0, out |-> [chain |-> NilChain, err |-> Nil]]

\* options of a construction that GetDefaultChainedToken has not started
NoOptions == [direct |-> TRUE]

\* options: the argument of GetDefaultChainedToken when it started the construction
IdleBuild ==
    [pc |-> "idle", i |-> 1, chain |-> <<>>, ret |-> [chain |-> NilChain, err |-> Nil],
     invoked |-> <<>>, agg |-> NoAggregation, options |-> NoOptions]

RetainedAlways(err) == TRUE
\* if err == nil
Retained(err) == err = Nil

\* a resolver failure ends the construction with that failure
OnResolverResultFailFast(b, cred, err) ==
    IF err # Nil
    THEN [b EXCEPT !.pc = "returned", !.ret = [chain |-> NilChain, err |-> err]]
    ELSE [b EXCEPT !.chain = Append(@, cred), !.i = @ + 1]
\* a resolver failure ends the loop
OnResolverResultBreak(b, cred, err) ==
    IF err # Nil
    THEN [b EXCEPT !.i = Len(opts) + 1]
    ELSE [b EXCEPT !.chain = Append(@, cred), !.i = @ + 1]
\* the loop body after cred, err := fn(): append when err == nil, then the next fn
OnResolverResult(b, cred, err) ==
    [b EXCEPT !.chain = IF Retained(err) THEN Append(@, cred) ELSE @,
              !.i = @ + 1]

\* BuildChainedToken(opts...): chain := []azcore.TokenCredential{}
BuildChainedToken ==
    /\ build.pc = "idle"
    /\ mat.pc = "idle"
    /\ opts' \in ResolverSeqs
    /\ build' = [IdleBuild EXCEPT !.pc = "loop"]
    /\ UNCHANGED <<retryVars, gets, mat, libVars>>

\* one iteration of for _, fn := range opts
BuildResolve ==
    /\ build.pc = "loop"
    /\ build.i <= Len(opts)
    /\ build' = [OnResolverResult(build, opts[build.i].cred, opts[build.i].err)
                    EXCEPT !.invoked = Append(build.invoked, build.i)]
    /\ UNCHANGED <<retryVars, opts, gets, mat, libVars>>

\* an empty list is refused before the aggregation call
AggregatedUnlessEmpty(b, out) ==
    IF b.chain = <<>>
    THEN [b EXCEPT !.pc = "returned", !.ret = [chain |-> NilChain, err |-> AggregationError]]
    ELSE [b EXCEPT !.pc = "returned", !.ret = out,
                   !.agg = [called |-> TRUE, sources |-> b.chain,
                            after |-> Len(b.invoked), out |-> out]]
\* the list as it stands goes to the aggregation call, whose result (out) is
\* the result of BuildChainedToken
Aggregated(b, out) ==
    [b EXCEPT !.pc = "returned", !.ret = out,
              !.agg = [called |-> TRUE, sources |-> b.chain,
                       after |-> Len(b.invoked), out |-> out]]

\* return azidentity.NewChainedTokenCredential(chain, nil)
BuildAggregate ==
    /\ build.pc = "loop"
    /\ build.i > Len(opts)
    /\ \E ok \in BOOLEAN :
        build' = Aggregated(build, NewChainedTokenCredential(build.chain, ok))
    /\ UNCHANGED <<retryVars, opts, gets, mat, libVars>>

\* a token request on the built chain reaches one of the credentials it was
\* given; the chain holds the credentials only, not the resolvers
ChainGetToken ==
    /\ build.pc = "returned"
    /\ build.ret.err = Nil
    /\ build.ret.chain.sources # <<>>
    /\ gets < MaxGets
    /\ gets' = gets + 1
    /\ UNCHANGED <<retryVars, opts, build, mat, libVars>>

-----------------------------------------------------------------------------
(* GetDefaultChainedToken and GetTokenFromCredential *)

DefaultRetryableManagedIdentityTimeout == 5
DefaultRetryableManagedIdentityAttempts == 3

\* a nil *azidentity.DefaultAzureCredentialOptions
NilOptions == [nil |-> TRUE]

\* &azidentity.DefaultAzureCredentialOptions{}
ZeroOptions == [ClientOptions |-> "zero", DisableInstanceDiscovery |-> FALSE, TenantID |-> ""]

\* the options a caller may pass to GetDefaultChainedToken
DefaultAzureCredentialOptions ==
    {NilOptions, ZeroOptions,
     [ClientOptions |-> "custom", DisableInstanceDiscovery |-> TRUE, TenantID |-> "tenantA"],
     [ClientOptions |-> "custom", DisableInstanceDiscovery |-> FALSE, TenantID |-> "tenantB"]}

\* if options == nil { options = &azidentity.DefaultAzureCredentialOptions{} }
NormalizeOptions(options) == IF options = NilOptions THEN ZeroOptions ELSE options

\* the credential a constructor of azidentity returns on success for its options
Constructed(name, o) == [type |-> name, options |-> o]
ConstructorError(name) == [kind |-> "constructor", of |-> name]

\* &retryableManagedIdentityCredential{mic: *mic, timeout: timeout, attempts: attempts}
Retryable(timeout, attempts, mic) ==
    [type |-> "retryableManagedIdentityCredential", mic |-> mic,
     timeout |-> timeout, attempts |-> attempts]

\* WithCliCredentials, WithEnvCredentials, WithWorkloadIdentityCredentials:
\* the constructor's result as it is
WithConstructor(name, o, ok) ==
    IF ok THEN [cred |-> Constructed(name, o), err |-> Nil]
          ELSE [cred |-> NilCred, err |-> ConstructorError(name)]

\* WithRetryableManagedIdentityCredentials(timeout, attempts, opts)
WithRetryableManagedIdentityCredentials(timeout, attempts, o, ok) ==
    IF ok THEN [cred |-> Retryable(timeout, attempts,
                                   Constructed("ManagedIdentityCredential", o)),
                err |-> Nil]
          ELSE [cred |-> NilCred, err |-> ConstructorError("ManagedIdentityCredential")]

\* the workload-identity resolver listed before the managed-identity one
DefaultResolversWorkloadFirst(options, ok) ==
    LET o == NormalizeOptions(options)
    IN  << WithConstructor("AzureCLICredential", [AdditionallyAllowedTenants |-> <<"*">>], ok[1]),
           WithConstructor("EnvironmentCredential", [ClientOptions |-> o.ClientOptions], ok[2]),
           WithConstructor("WorkloadIdentityCredential",
                           [ClientOptions |-> o.ClientOptions,
                            DisableInstanceDiscovery |-> o.DisableInstanceDiscovery,
                            TenantID |-> o.TenantID], ok[4]),
           WithRetryableManagedIdentityCredentials(DefaultRetryableManagedIdentityTimeout,
                                                   DefaultRetryableManagedIdentityAttempts,
                                                   [ClientOptions |-> o.ClientOptions], ok[3]) >>

\* the opts of GetDefaultChainedToken(options); ok[k]: whether constructor k
\* succeeds
DefaultResolvers(options, ok) ==
    LET o == NormalizeOptions(options)
    IN  << WithConstructor("AzureCLICredential", [AdditionallyAllowedTenants |-> <<"*">>], ok[1]),
           WithConstructor("EnvironmentCredential", [ClientOptions |-> o.ClientOptions], ok[2]),
           WithRetryableManagedIdentityCredentials(DefaultRetryableManagedIdentityTimeout,
                                                   DefaultRetryableManagedIdentityAttempts,
                                                   [ClientOptions |-> o.ClientOptions], ok[3]),
           WithConstructor("WorkloadIdentityCredential",
                           [ClientOptions |-> o.ClientOptions,
                            DisableInstanceDiscovery |-> o.DisableInstanceDiscovery,
                            TenantID |-> o.TenantID], ok[4]) >>

\* GetDefaultChainedToken(options), called on its own, up to its call of
\* BuildChainedToken(opts...)
GetDefaultChainedToken ==
    /\ build.pc = "idle"
    /\ mat.pc = "idle"
    /\ gets = 0
    /\ \E options \in DefaultAzureCredentialOptions, ok \in [1..4 -> BOOLEAN] :
        /\ opts' = DefaultResolvers(options, ok)
        /\ build' = [IdleBuild EXCEPT !.pc = "loop", !.options = options]
    /\ UNCHANGED <<retryVars, gets, mat, libVars>>

\* a nil *vault.Credential
NilCredential == [Type |-> "nil"]

\* vault.CredentialType
CredentialTypes ==
    {"CredentialType_undefined", "CredentialType_password", "CredentialType_private_key",
     "CredentialType_bearer", "CredentialType_pkcs12"}

\* CredentialType.String(): the name of the enum value
TypeString(ty) ==
    CASE ty = "CredentialType_undefined" -> "undefined"
      [] ty = "CredentialType_password" -> "password"
      [] ty = "CredentialType_private_key" -> "private_key"
      [] ty = "CredentialType_bearer" -> "bearer"
      [] ty = "CredentialType_pkcs12" -> "pkcs12"

\* []byte(s) and string(b): a byte slice and a string of the same bytes are
\* values of different types
Bytes(s) == [bytes |-> s]
String(b) == b.bytes

\* Secret is a []byte, Password and PrivateKeyPath are strings
Credentials ==
    [Type : CredentialTypes, Secret : {Bytes("s1"), Bytes("s2")}, Password : {"pw"},
     PrivateKeyPath : {"", "/etc/id.p12"}]
TenantIDs == {"tenantA", "tenantB"}
ClientIDs == {"client1"}

\* errors.Wrap(err, msg)
Wrap(err, msg) == [kind |-> "wrapped", msg |-> msg, cause |-> err]
\* errors.New(msg)
New(msg) == [kind |-> "errorString", msg |-> msg]

ParseError == [kind |-> "ParseCertificates"]
\* azidentity.ParseCertificates(secret, password)
ParseCertificates(secret, password, ok) ==
    IF ok THEN [certs |-> <<"certs", secret, password>>, key |-> <<"key", secret, password>>, err |-> Nil]
          ELSE [certs |-> <<>>, key |-> <<>>, err |-> ParseError]

\* azidentity.NewClientCertificateCredential(tenantID, clientID, certs, key, opts)
NewClientCertificateCredential(tenantID, clientID, certs, key, ok) ==
    IF ok
    THEN [cred |-> [type |-> "ClientCertificateCredential", tenantID |-> tenantID,
                    clientID |-> clientID, certs |-> certs, key |-> key], err |-> Nil]
    ELSE [cred |-> NilCred, err |-> ConstructorError("ClientCertificateCredential")]

\* azidentity.NewClientSecretCredential(tenantID, clientID, secret, opts)
NewClientSecretCredential(tenantID, clientID, secret, ok) ==
    IF ok
    THEN [cred |-> [type |-> "ClientSecretCredential", tenantID |-> tenantID,
                    clientID |-> clientID, secret |-> secret], err |-> Nil]
    ELSE [cred |-> NilCred, err |-> ConstructorError("ClientSecretCredential")]

SwitchTypeDefaultIsPassword(ty) ==
    IF ty = "CredentialType_pkcs12" THEN "pkcs12" ELSE "password"
\* switch credential.Type
SwitchType(ty) ==
    CASE ty = "CredentialType_pkcs12" -> "pkcs12"
      [] ty = "CredentialType_password" -> "password"
      [] OTHER -> "default"

\* the password handed to the client-secret constructor
SecretArgumentPassword(credential) == credential.Password
\* string(credential.Secret)
SecretArgument(credential) == String(credential.Secret)

\* the parse failure returned without the path of the certificate
ParseFailureNoPath(err, path) ==
    [cred |-> NilCred, err |-> Wrap(err, <<"could not parse provided certificate">>)]
\* return nil, errors.Wrap(err, fmt.Sprintf("could not parse provided
\* certificate at %s", credential.PrivateKeyPath))
ParseFailure(err, path) ==
    [cred |-> NilCred, err |-> Wrap(err, <<"could not parse provided certificate at ", path>>)]

\* one call made by GetTokenFromCredential: the function, its arguments and
\* what it returned
Called(fn, args, out) == [fn |-> fn, args |-> args, out |-> out]

\* the else branch of GetTokenFromCredential: [calls, ret] for a non-nil
\* credential; pok, cok: whether the parser and the constructor succeed
FromCredential(credential, tenantID, clientID, pok, cok) ==
    LET sw == SwitchType(credential.Type)
        parsed == ParseCertificates(credential.Secret, Bytes(credential.Password), pok)
        cert == NewClientCertificateCredential(tenantID, clientID, parsed.certs, parsed.key, cok)
        secret == NewClientSecretCredential(tenantID, clientID, SecretArgument(credential), cok)
        parseCall == Called("ParseCertificates",
                            <<credential.Secret, Bytes(credential.Password)>>, parsed)
        certCall == Called("NewClientCertificateCredential",
                           <<tenantID, clientID, parsed.certs, parsed.key>>, cert)
        secretCall == Called("NewClientSecretCredential",
                             <<tenantID, clientID, SecretArgument(credential)>>, secret)
    IN  CASE sw = "pkcs12" /\ parsed.err # Nil ->
               [calls |-> <<parseCall>>,
                ret |-> ParseFailure(parsed.err, credential.PrivateKeyPath)]
          [] sw = "pkcs12" /\ parsed.err = Nil /\ cert.err # Nil ->
               [calls |-> <<parseCall, certCall>>,
                ret |-> [cred |-> NilCred,
                         err |-> Wrap(cert.err, <<"error creating credentials from a certificate">>)]]
          [] sw = "pkcs12" /\ parsed.err = Nil /\ cert.err = Nil ->
               [calls |-> <<parseCall, certCall>>,
                ret |-> [cred |-> cert.cred, err |-> Nil]]
          [] sw = "password" /\ secret.err # Nil ->
               [calls |-> <<secretCall>>,
                ret |-> [cred |-> NilCred,
                         err |-> Wrap(secret.err, <<"error creating credentials from a secret">>)]]
          [] sw = "password" /\ secret.err = Nil ->
               [calls |-> <<secretCall>>,
                ret |-> [cred |-> secret.cred, err |-> Nil]]
          [] OTHER ->
               [calls |-> <<>>,
                ret |-> [cred |-> NilCred,
                         err |-> New(<<"invalid secret configuration for microsoft transport: ",
                                       TypeString(credential.Type)>>)]]

IdleMat ==
    [pc |-> "idle", credential |-> NilCredential, tenantID |-> "", clientID |-> "",
     calls |-> <<>>, ret |-> [cred |-> NilCred, err |-> Nil]]

\* GetTokenFromCredential(credential, tenantID, clientID), credential != nil
GetTokenFromCredential ==
    /\ mat.pc = "idle"
    /\ build.pc = "idle"
    /\ \E credential \in Credentials, tenantID \in TenantIDs, clientID \in ClientIDs,
          pok \in BOOLEAN, cok \in BOOLEAN :
        LET r == FromCredential(credential, tenantID, clientID, pok, cok)
        IN  mat' = [pc |-> "returned", credential |-> credential, tenantID |-> tenantID,
                    clientID |-> clientID, calls |-> r.calls, ret |-> r.ret]
    /\ UNCHANGED <<retryVars, chainVars, libVars>>

\* GetTokenFromCredential(nil, tenantID, clientID) up to its call of
\* GetDefaultChainedToken, which calls BuildChainedToken(opts...)
GetTokenFromCredentialDefault ==
    /\ mat.pc = "idle"
    /\ build.pc = "idle"
    /\ \E tenantID \in TenantIDs, clientID \in ClientIDs, ok \in [1..4 -> BOOLEAN] :
        /\ mat' = [IdleMat EXCEPT !.pc = "chain", !.tenantID = tenantID,
                                  !.clientID = clientID,
                                  !.calls = <<Called("GetDefaultChainedToken",
                                                     <<ZeroOptions>>, "pending")>>]
        /\ opts' = DefaultResolvers(ZeroOptions, ok)
    /\ build' = [IdleBuild EXCEPT !.pc = "loop", !.options = ZeroOptions]
    /\ UNCHANGED <<retryVars, gets, libVars>>

\* the result of GetDefaultChainedToken returned with its error as it is
FromDefaultChainUnwrapped(r) ==
    IF r.err # Nil THEN [cred |-> NilCred, err |-> r.err]
                   ELSE [cred |-> r.chain, err |-> Nil]
\* azCred, err = GetDefaultChainedToken(...); if err != nil { return nil,
\* errors.Wrap(err, "error creating CLI credentials") }; return azCred, nil
FromDefaultChain(r) ==
    IF r.err # Nil
    THEN [cred |-> NilCred, err |-> Wrap(r.err, <<"error creating CLI credentials">>)]
    ELSE [cred |-> r.chain, err |-> Nil]

\* GetTokenFromCredential(nil, ...) after GetDefaultChainedToken has returned
GetTokenFromCredentialDefaultReturn ==
    /\ mat.pc = "chain"
    /\ build.pc = "returned"
    /\ mat' = [mat EXCEPT !.pc = "returned",
                          !.calls = <<Called("GetDefaultChainedToken",
                                             <<ZeroOptions>>, build.ret)>>,
                          !.ret = FromDefaultChain(build.ret)]
    /\ UNCHANGED <<retryVars, chainVars, libVars>>

-----------------------------------------------------------------------------
(* multierr.Errors *)

\* error values: two of different types with the same Error() message, and one
\* with another message
ErrTest1 == [type |-> "*errors.errorString", msg |-> "1"]
ErrOther1 == [type |-> "*fmt.wrapError", msg |-> "1"]
ErrTest2 == [type |-> "*errors.errorString", msg |-> "2"]
Errs == {ErrTest1, ErrOther1, ErrTest2}

\* e.Error()
ErrorText(e) == e.msg

\* var e multierr.Errors, with what Add was passed so far (passed) and the
\* last method called on it (op) with what it returned (ret)
NewErrors == [Errors |-> <<>>, passed |-> <<>>, op |-> "none", ret |-> Nil]

\* the argument lists of Add(err ...error)
ArgLists(n) == UNION {[1..k -> Errs \cup {Nil}] : k \in 0..n}

AddOneKeepsNil(es, e) == Append(es, e)
\* if err[i] != nil { m.Errors = append(m.Errors, err[i]) }
AddOne(es, e) == IF e # Nil THEN Append(es, e) ELSE es

\* for i := range err { ... }
RECURSIVE AddAll(_, _)
AddAll(es, err) ==
    IF err = <<>> THEN es ELSE AddAll(AddOne(es, Head(err)), Tail(err))

\* the entry of a message is written once, by the first error with it
TrackPutFirst(track, e) ==
    [s \in DOMAIN track \cup {ErrorText(e)} |->
        IF s \in DOMAIN track THEN track[s] ELSE e]
\* track[e.Error()] = e
TrackPut(track, e) ==
    [s \in DOMAIN track \cup {ErrorText(e)} |->
        IF s = ErrorText(e) THEN e ELSE track[s]]

\* track := map[string]error{}; for i := range m.Errors { ... }: the map after
\* the first n errors
RECURSIVE Track(_, _)
Track(es, n) ==
    IF n = 0 THEN [s \in {} |-> Nil] ELSE TrackPut(Track(es, n - 1), es[n])

\* for _, v := range track { res[i] = v; i++ }: the values of the map in one
\* of the orders the iteration over a map can take
RangeOrders(track) ==
    {res \in [1..Cardinality(DOMAIN track) -> {track[s] : s \in DOMAIN track}] :
        \A s \in DOMAIN track : \E i \in DOMAIN res : res[i] = track[s]}

\* &Errors{Errors: res}
ErrorsOf(res) == [type |-> "*multierr.Errors", Errors |-> res]

\* what m.Deduplicate() can return
Deduplicate(es) ==
    IF Len(es) = 0 THEN {Nil}
    ELSE {ErrorsOf(res) : res \in RangeOrders(Track(es, Len(es)))}

\* m.IsEmpty() on a non-nil receiver
IsEmpty(es) == Len(es) = 0

\* e.Add(err...)
ErrorsAdd ==
    /\ \E err \in ArgLists(MaxPassed - Len(me.passed)) :
        me' = [Errors |-> AddAll(me.Errors, err), passed |-> me.passed \o err,
               op |-> "Add", ret |-> Nil]
    /\ UNCHANGED <<azVars, mw, ck>>

\* e.Deduplicate()
ErrorsDeduplicate ==
    /\ \E r \in Deduplicate(me.Errors) :
        me' = [me EXCEPT !.op = "Deduplicate", !.ret = r]
    /\ UNCHANGED <<azVars, mw, ck>>

\* e.IsEmpty()
ErrorsIsEmpty ==
    /\ me' = [me EXCEPT !.op = "IsEmpty", !.ret = IsEmpty(me.Errors)]
    /\ UNCHANGED <<azVars, mw, ck>>

-----------------------------------------------------------------------------
(* echolog.LoggingMiddleware *)

\* the fields of Config the handler branches on: Skipper, AfterNextSkipper are
\* "nil" or "custom", Enricher and BeforeNext are set or nil, and
\* RequestLatencyLimit is zero or not
Configs ==
    [Skipper : {"nil", "custom"}, AfterNextSkipper : {"nil", "custom"},
     Enricher : BOOLEAN, BeforeNext : BOOLEAN, HandleError : BOOLEAN,
     RequestLatencyLimit : {0, 1}]

\* the errors the next handler returns
HandlerErrors == {Nil, [type |-> "*echo.HTTPError", msg |-> "not found"],
                  [type |-> "*errors.errorString", msg |-> "error"]}

\* one request: what a custom Skipper and a custom AfterNextSkipper answer for
\* it, what next returns, whether a request ID header is set and whether the
\* latency exceeds a non-zero RequestLatencyLimit
Requests ==
    [skip : BOOLEAN, afterSkip : BOOLEAN, nextErr : HandlerErrors,
     id : BOOLEAN, slow : BOOLEAN]

\* config.Skipper(c), config.AfterNextSkipper(c): middleware.DefaultSkipper,
\* which replaces a nil skipper, returns false
SkipperResult(skipper, answer) == IF skipper = "nil" THEN FALSE ELSE answer

\* one thing the handler did, in the order it did it
Event(ev, arg) == [ev |-> ev, arg |-> arg]

\* logEvent(c, logger, config, start, err): one mainEvt.Msg("request details")
LogEvent(config, r, err) ==
    << Event("Msg", [msg |-> "request details",
                     level |-> CASE err # Nil -> "ErrorLevel"
                                 [] config.RequestLatencyLimit # 0 /\ r.slow -> "RequestLatencyLevel"
                                 [] OTHER -> "GetLevel",
                     error |-> IF err # Nil THEN err.msg ELSE ""]) >>

\* the request is logged whatever AfterNextSkipper answers
AfterNextLogsAlways(config, r, err) ==
    [events |-> <<Event("AfterNextSkipper", "wrapped")>> \o LogEvent(config, r, err),
     ret |-> IF SkipperResult(config.AfterNextSkipper, r.afterSkip) THEN Nil ELSE err]
\* if config.AfterNextSkipper(c) { return nil }; logEvent(...); return err
AfterNext(config, r, err) ==
    IF SkipperResult(config.AfterNextSkipper, r.afterSkip)
    THEN [events |-> <<Event("AfterNextSkipper", "wrapped")>>, ret |-> Nil]
    ELSE [events |-> <<Event("AfterNextSkipper", "wrapped")>> \o LogEvent(config, r, err),
          ret |-> err]

\* the handler func(c echo.Context) error on request r: what it did and what
\* it returned
Handler(config, r) ==
    IF SkipperResult(config.Skipper, r.skip)
    THEN [events |-> <<Event("Skipper", "original"), Event("next", "original")>>,
          ret |-> r.nextErr]
    ELSE LET after == AfterNext(config, r, r.nextErr)
         IN  [events |->
                 <<Event("Skipper", "original")>>
                 \o (IF config.Enricher THEN <<Event("Enricher", "original")>> ELSE <<>>)
                 \o (IF r.id THEN <<Event("WithField", "request_id")>> ELSE <<>>)
                 \o <<Event("SetRequest", "logger.WithContext")>>
                 \o (IF config.BeforeNext THEN <<Event("BeforeNext", "wrapped")>> ELSE <<>>)
                 \o <<Event("next", "wrapped")>>
                 \o (IF r.nextErr # Nil /\ config.HandleError
                     THEN <<Event("c.Error", r.nextErr)>> ELSE <<>>)
                 \o after.events,
              ret |-> after.ret]

\* no middleware built yet
NoMiddleware ==
    [pc |-> "none",
     config |-> [Skipper |-> "nil", AfterNextSkipper |-> "nil", Enricher |-> FALSE,
                 BeforeNext |-> FALSE, HandleError |-> FALSE, RequestLatencyLimit |-> 0],
     request |-> [skip |-> FALSE, afterSkip |-> FALSE, nextErr |-> Nil,
                  id |-> FALSE, slow |-> FALSE],
     events |-> <<>>, ret |-> Nil]

\* LoggingMiddleware(config)(next)
LoggingMiddleware ==
    /\ mw.pc = "none"
    /\ \E config \in Configs : mw' = [NoMiddleware EXCEPT !.pc = "built", !.config = config]
    /\ UNCHANGED <<azVars, me, ck>>

\* the handler is called with a request
Handle ==
    /\ mw.pc # "none"
    /\ \E r \in Requests :
        LET h == Handler(mw.config, r)
        IN  mw' = [mw EXCEPT !.pc = "handled", !.request = r,
                             !.events = h.events, !.ret = h.ret]
    /\ UNCHANGED <<azVars, me, ck>>

-----------------------------------------------------------------------------
(* cookie.New *)

\* time.Duration is a signed 64-bit count of nanoseconds and time.Second is
\* 1e9 of them. The model keeps that arithmetic at a reduced size: a duration
\* is a signed DurationBits-bit count of ticks and a second is Second ticks,
\* so that, as in the program, some int values of MaxAge are too many seconds
\* for a duration.
DurationBits == 6
Second == 8

\* multiplication of two durations: the product wraps around in the width of
\* a duration
DurationMul(a, b) ==
    ((a * b + 2 ^ (DurationBits - 1)) % (2 ^ DurationBits)) - 2 ^ (DurationBits - 1)

\* the values of Config.MaxAge (an int)
MaxAges == -2..5

\* time.Time values: the zero time.Time{}, or an instant in ticks since the
\* Unix epoch
ZeroTime == [zero |-> TRUE, ticks |-> 0]
Instant(ticks) == [zero |-> FALSE, ticks |-> ticks]
\* time.Unix(sec, nsec)
Unix(sec, nsec) == Instant(sec * Second + nsec)
\* time.Now() when the clock shows n seconds
TimeNow(n) == Instant(n * Second)

\* expiresTime(maxAge), called when the clock shows n: (time, ok)
ExpiresTime(maxAge, n) ==
    IF maxAge > 0
    THEN [time |-> Instant(TimeNow(n).ticks + DurationMul(maxAge, Second)), ok |-> TRUE]
    ELSE IF maxAge < 0
    THEN [time |-> Unix(1, 0), ok |-> TRUE]
    ELSE [time |-> ZeroTime, ok |-> FALSE]

\* a non-nil *Config
CookieConfigs ==
    [Name : {"", "default"}, Path : {"/"}, Domain : {"example.com"}, MaxAge : MaxAges,
     HTTPOnly : BOOLEAN, Secure : BOOLEAN,
     SameSite : {"SameSiteDefaultMode", "SameSiteStrictMode"}]

\* a nil *http.Cookie
NilCookie == [nil |-> TRUE]

\* New(name, value, config), called when the clock shows n
NewCookie(name, value, config, n) ==
    LET cookieName == IF name = "" THEN config.Name ELSE name
        expires == ExpiresTime(config.MaxAge, n)
    IN  IF cookieName = "" THEN NilCookie
        ELSE [Name |-> cookieName, Value |-> value, Path |-> config.Path,
              Domain |-> config.Domain, MaxAge |-> config.MaxAge,
              HttpOnly |-> config.HTTPOnly, Secure |-> config.Secure,
              SameSite |-> config.SameSite,
              Expires |-> IF expires.ok THEN expires.time ELSE ZeroTime]

\* cookie.New has not been called
NoCookie ==
    [pc |-> "idle", name |-> "", value |-> "",
     config |-> [Name |-> "", Path |-> "/", Domain |-> "example.com", MaxAge |-> 0,
                 HTTPOnly |-> FALSE, Secure |-> FALSE, SameSite |-> "SameSiteDefaultMode"],
     at |-> 0, ret |-> NilCookie]

\* a call of cookie.New(name, value, config)
CookieNew ==
    /\ \E name \in {"", "session"}, value \in {"", "abc123"}, config \in CookieConfigs :
        ck' = [pc |-> "returned", name |-> name, value |-> value, config |-> config,
               at |-> now, ret |-> NewCookie(name, value, config, now)]
    /\ UNCHANGED <<azVars, me, mw>>

-----------------------------------------------------------------------------
(* Specifications *)

InitRest ==
    /\ opts = <<>>
    /\ build = IdleBuild
    /\ gets = 0
    /\ mat = IdleMat
    /\ me = NewErrors
    /\ mw = NoMiddleware
    /\ ck = NoCookie

\* &retryableManagedIdentityCredential{mic: *mic, timeout: timeout, attempts: attempts}
Init ==
    /\ \E a \in -1..MaxAttempts, d \in -1..MaxTimeout :
        /\ t = [attempts |-> a, timeout |-> d]
        /\ cfg = [attempts |-> a, timeout |-> d]
    /\ now = 0
    /\ call = [p \in Callers |-> IdleCall]
    /\ InitRest

\* GetToken calls on one retry wrapper, one caller at a time
Next ==
    \/ Step("a")
    \/ Tick

\* a retry wrapper with a timeout, shared by two goroutines
InitShared ==
    /\ \E a \in 1..ConcurrentAttempts, d \in 1..MaxTimeout :
        /\ t = [attempts |-> a, timeout |-> d]
        /\ cfg = [attempts |-> a, timeout |-> d]
    /\ now = 0
    /\ call = [p \in Callers |-> IdleCall]
    /\ InitRest

\* GetToken calls of two goroutines on one retry wrapper, interleaved at the
\* reads and writes of the instance's fields
NextConcurrent ==
    \/ Step("a")
    \/ Step("b")
    \/ Tick

SpecConcurrent == InitShared /\ [][NextConcurrent]_vars

Spec == Init /\ [][Next]_vars

\* a retry wrapper whose GetToken is called at any time
InitAnyTime ==
    /\ \E a \in -1..MaxAttempts, d \in -1..MaxTimeout :
        /\ t = [attempts |-> a, timeout |-> d]
        /\ cfg = [attempts |-> a, timeout |-> d]
    /\ now \in 0..MaxTime
    /\ call = [p \in Callers |-> IdleCall]
    /\ InitRest

\* the steps of the GetToken calls of one caller
NextCall == Step("a")

\* the goroutine of a call is scheduled and every mic.GetToken it makes returns
SpecFair == InitAnyTime /\ [][NextCall]_vars /\ WF_vars(NextCall)

\* the instance GetDefaultChainedToken configures, not yet used
InitDefault ==
    /\ t = [attempts |-> DefaultRetryableManagedIdentityAttempts,
            timeout |-> DefaultRetryableManagedIdentityTimeout]
    /\ cfg = t
    /\ now = 0
    /\ call = [p \in Callers |-> IdleCall]
    /\ InitRest

\* BuildChainedToken on any resolvers, then token requests on the chain
NextChain ==
    \/ BuildChainedToken
    \/ GetDefaultChainedToken
    \/ BuildResolve
    \/ BuildAggregate
    \/ ChainGetToken

SpecChain == InitDefault /\ [][NextChain]_vars

\* GetTokenFromCredential, with the default chain it builds for a nil credential
NextMaterialize ==
    \/ GetTokenFromCredential
    \/ GetTokenFromCredentialDefault
    \/ BuildResolve
    \/ BuildAggregate
    \/ GetTokenFromCredentialDefaultReturn

SpecMaterialize == InitDefault /\ [][NextMaterialize]_vars

\* any calls of Add, Deduplicate and IsEmpty on one Errors collection
NextErrors ==
    \/ ErrorsAdd
    \/ ErrorsDeduplicate
    \/ ErrorsIsEmpty

SpecErrors == InitDefault /\ [][NextErrors]_vars

\* one middleware built from any Config, handling any requests
NextMiddleware ==
    \/ LoggingMiddleware
    \/ Handle

SpecMiddleware == InitDefault /\ [][NextMiddleware]_vars

\* calls of cookie.New at any time
NextCookie ==
    \/ CookieNew
    \/ Tick

SpecCookie == InitDefault /\ [][NextCookie]_vars

-----------------------------------------------------------------------------
(* Properties of the retry wrapper, checked under Spec *)

AllFailed(p) == \A k \in 1..Len(call[p].hist) : call[p].hist[k].raw.err # Nil

\* C1: with attempts = N >= 1 configured and the underlying credential failing
\* on every invocation, a finished GetToken call has invoked it exactly N
\* times and returns the zero AccessToken with one joined error whose causes
\* are the N errors recorded for the attempts, in attempt order.
C1_ExhaustedJoinsAllAttempts ==
    \A p \in Callers :
        (call[p].pc = "done" /\ cfg.attempts >= 1 /\ AllFailed(p))
            => /\ Len(call[p].hist) = cfg.attempts
               /\ call[p].ret.tk = ZeroToken
               /\ call[p].ret.err =
                    [kind |-> "joined",
                     causes |-> [k \in 1..cfg.attempts |-> call[p].hist[k].err]]

C1_Witness ==
    /\ call["a"].pc = "done"
    /\ cfg.attempts = MaxAttempts
    /\ Len(call["a"].hist) = MaxAttempts
    /\ AllFailed("a")
    /\ call["a"].ret.err # Nil
    /\ call["a"].hist[1].err = TimedOut
    /\ call["a"].hist[2].err = AuthFailed

\* C2: an invocation that succeeds is the last one of its call (invocation k,
\* k <= attempts, after k-1 failures): the call is finished and returns a nil
\* error and exactly the token that invocation produced.
C2_SuccessOnAttemptK ==
    \A p \in Callers :
        \A k \in 1..Len(call[p].hist) :
            call[p].hist[k].raw.err = Nil
                => /\ k = Len(call[p].hist)
                   /\ k <= CoerceAttempts(cfg.attempts)
                   /\ \A j \in 1..(k - 1) : call[p].hist[j].raw.err # Nil
                   /\ call[p].pc = "done"
                   /\ call[p].ret = [tk |-> call[p].hist[k].raw.tk, err |-> Nil]

C2_Witness ==
    /\ call["a"].pc = "done"
    /\ cfg.attempts = MaxAttempts
    /\ Len(call["a"].hist) = 2
    /\ call["a"].hist[1].raw.err # Nil
    /\ call["a"].hist[2].raw.err = Nil
    /\ call["a"].ret.err = Nil
    /\ call["a"].ret.tk \in Tokens

\* C3: an attempt made while the instance's timeout is <= 0 hands the
\* underlying credential a context whose deadline is exactly the caller's
\* (none when the caller set none).
C3_NoInternalDeadline ==
    \A p \in Callers :
        (call[p].pc = "l303" /\ t.timeout <= 0) => call[p].c = call[p].ctx

\* C9: a success of an attempt made while timeout > 0 sets timeout to 0, and a
\* timeout of 0 is never changed again; the only change ever made to the field
\* is to 0.
C9_TimeoutRelaxedForGood ==
    [][ /\ \A p \in Callers :
              (call[p].pc = "l289" /\ t.timeout > 0 /\ call'[p].pc = "done")
                  => t'.timeout = 0
        /\ (t.timeout = 0 => t'.timeout = 0)
        /\ (t'.timeout # t.timeout => t'.timeout = 0) ]_vars

C9_Witness ==
    /\ cfg.timeout > 0
    /\ t.timeout = 0
    /\ call["a"].pc = "l303"
    /\ call["a"].i = 1

-----------------------------------------------------------------------------
(* Properties of BuildChainedToken, checked under SpecChain *)

RECURSIVE RetainedCreds(_)
\* the credentials of the resolvers of rs that returned no error, in order
RetainedCreds(rs) ==
    IF rs = <<>>
    THEN <<>>
    ELSE (IF Head(rs).err = Nil THEN <<Head(rs).cred>> ELSE <<>>)
            \o RetainedCreds(Tail(rs))

\* C6: the list BuildChainedToken assembles holds the credential of every
\* resolver that returned no error and nothing of a resolver that returned an
\* error, in the order of the resolvers: during the loop for the resolvers
\* invoked so far, and at the aggregation call for all of them.
C6_ChainHoldsExactlyTheResolved ==
    /\ build.pc = "loop" => build.chain = RetainedCreds(SubSeq(opts, 1, build.i - 1))
    /\ build.agg.called => build.agg.sources = RetainedCreds(opts)

C6_Witness ==
    /\ build.agg.called
    /\ Len(opts) = 3
    /\ opts[1] = [cred |-> Static(1), err |-> ResolverError(1)]
    /\ opts[2].err = Nil
    /\ opts[3].err = Nil
    /\ build.agg.sources = <<opts[2].cred, opts[3].cred>>

\* C7: what BuildChainedToken returns is what the aggregation call on the
\* retained list returned: its error is never the error of a resolver, and it
\* is non-nil only when the aggregation call failed.
C7_OnlyAggregationFails ==
    build.pc = "returned"
        => /\ build.agg.called
           /\ build.agg.sources = build.chain
           /\ build.ret = build.agg.out
           /\ \A k \in 1..Len(opts) : build.ret.err = Nil \/ build.ret.err # opts[k].err
           /\ build.ret.err # Nil => build.ret.err = AggregationError

C7_Witness ==
    /\ build.pc = "returned"
    /\ build.ret.err = Nil
    /\ build.ret.chain # NilChain
    /\ Len(opts) = 2
    /\ opts[1].err # Nil
    /\ opts[2] = [cred |-> Static(2), err |-> Nil]
    /\ build.ret.chain.sources = <<Static(2)>>

\* C8: the resolvers are invoked once each in the order supplied, the next one
\* after the previous one has returned whether or not it failed, all of them
\* before the aggregation call, and none again by a token request on the chain.
C8_ResolversInvokedOnceInOrder ==
    /\ build.invoked = [k \in 1..(build.i - 1) |-> k]
    /\ build.agg.called => build.agg.after = Len(opts)
    /\ build.pc = "returned" => build.invoked = [k \in 1..Len(opts) |-> k]
    /\ gets > 0 => build.invoked = [k \in 1..Len(opts) |-> k]

C8_Witness ==
    /\ gets = MaxGets
    /\ Len(opts) = 3
    /\ opts[1].err # Nil
    /\ opts[2].err = Nil
    /\ build.invoked = <<1, 2, 3>>

-----------------------------------------------------------------------------
(* Properties of GetTokenFromCredential, checked under SpecMaterialize *)

\* C10: for a non-nil credential whose type is neither pkcs12 nor password,
\* GetTokenFromCredential returns a nil credential and an error that names the
\* type, and calls no parser, no credential constructor and no default chain.
C10_UnsupportedKind ==
    (/\ mat.pc = "returned"
     /\ mat.credential # NilCredential
     /\ mat.credential.Type \notin {"CredentialType_pkcs12", "CredentialType_password"})
        => /\ mat.ret.cred = NilCred
           /\ mat.ret.err # Nil
           /\ mat.ret.err.kind = "errorString"
           /\ \E j \in DOMAIN mat.ret.err.msg :
                mat.ret.err.msg[j] = TypeString(mat.credential.Type)
           /\ mat.calls = <<>>
           /\ build = IdleBuild

C10_Witness ==
    /\ mat.pc = "returned"
    /\ mat.credential # NilCredential
    /\ mat.credential.Type = "CredentialType_bearer"
    /\ mat.ret.err # Nil

\* C11: for a pkcs12 (certificate) credential whose secret the parser rejects,
\* GetTokenFromCredential returns a nil credential and an error that wraps the
\* parse error and whose message holds the credential's PrivateKeyPath; the
\* parser is the only thing it called: no constructor, no default chain, no
\* token request.
C11_ParseFailureNamesPath ==
    (/\ mat.pc = "returned"
     /\ mat.credential # NilCredential
     /\ mat.credential.Type = "CredentialType_pkcs12"
     /\ Len(mat.calls) > 0
     /\ mat.calls[1].out.err # Nil)
        => /\ mat.ret.cred = NilCred
           /\ mat.ret.err # Nil
           /\ mat.ret.err.kind = "wrapped"
           /\ mat.ret.err.cause = mat.calls[1].out.err
           /\ \E j \in DOMAIN mat.ret.err.msg :
                mat.ret.err.msg[j] = mat.credential.PrivateKeyPath
           /\ Len(mat.calls) = 1
           /\ mat.calls[1].fn = "ParseCertificates"
           /\ build = IdleBuild
           /\ gets = 0
           /\ \A p \in Callers : call[p] = IdleCall

C11_Witness ==
    /\ mat.pc = "returned"
    /\ mat.credential # NilCredential
    /\ mat.credential.Type = "CredentialType_pkcs12"
    /\ mat.credential.PrivateKeyPath = "/etc/id.p12"
    /\ mat.calls[1].out.err = ParseError
    /\ mat.ret.err.cause = ParseError

\* the calls of the two credential constructors among cs
ConstructorCalls(cs) ==
    SelectSeq(cs, LAMBDA c : c.fn \in {"NewClientCertificateCredential",
                                       "NewClientSecretCredential"})

\* C12: for a non-nil credential that reaches a constructor (pkcs12 whose
\* secret parsed, or password), GetTokenFromCredential calls exactly one
\* credential constructor, once, chosen by the type alone: for pkcs12 the
\* client-certificate constructor with tenantID, clientID and the parsed
\* certificates and key, for password the client-secret constructor with
\* tenantID, clientID and the secret bytes as a string. A successful
\* constructor's credential is returned as it is (it is not the retry wrapper,
\* and nothing else is called), a failing constructor gives a nil credential
\* and its error wrapped. No other credential reaches a constructor.
C12_OneConstructorByKind ==
    (mat.pc = "returned" /\ mat.credential # NilCredential) =>
        LET cr == mat.credential
            cs == ConstructorCalls(mat.calls)
            parsedOk == /\ cr.Type = "CredentialType_pkcs12"
                        /\ mat.calls[1].fn = "ParseCertificates"
                        /\ mat.calls[1].out.err = Nil
            isPassword == cr.Type = "CredentialType_password"
        IN  /\ Len(cs) = (IF parsedOk \/ isPassword THEN 1 ELSE 0)
            /\ build = IdleBuild
            /\ parsedOk =>
                 /\ mat.calls = <<mat.calls[1], cs[1]>>
                 /\ cs[1].fn = "NewClientCertificateCredential"
                 /\ cs[1].args = <<mat.tenantID, mat.clientID,
                                   mat.calls[1].out.certs, mat.calls[1].out.key>>
                 /\ mat.calls[1].args = <<cr.Secret, Bytes(cr.Password)>>
            /\ isPassword =>
                 /\ mat.calls = cs
                 /\ cs[1].fn = "NewClientSecretCredential"
                 /\ cs[1].args = <<mat.tenantID, mat.clientID, String(cr.Secret)>>
            /\ (Len(cs) = 1 /\ cs[1].out.err = Nil) =>
                 /\ mat.ret = [cred |-> cs[1].out.cred, err |-> Nil]
                 /\ mat.ret.cred.type # "retryableManagedIdentityCredential"
                 /\ mat.ret.cred.type =
                      (IF isPassword THEN "ClientSecretCredential"
                                     ELSE "ClientCertificateCredential")
            /\ (Len(cs) = 1 /\ cs[1].out.err # Nil) =>
                 /\ mat.ret.cred = NilCred
                 /\ mat.ret.err # Nil
                 /\ mat.ret.err.kind = "wrapped"
                 /\ mat.ret.err.cause = cs[1].out.err

C12_Witness ==
    /\ mat.pc = "returned"
    /\ mat.credential # NilCredential
    /\ mat.credential.Type = "CredentialType_password"
    /\ mat.credential.Secret = Bytes("s2")
    /\ mat.tenantID = "tenantB"
    /\ Len(mat.calls) = 1
    /\ mat.ret.err = Nil
    /\ mat.ret.cred.type = "ClientSecretCredential"
    /\ mat.ret.cred.secret = "s2"
    /\ mat.ret.cred.tenantID = "tenantB"

\* C13: for a nil credential GetTokenFromCredential calls
\* GetDefaultChainedToken with default (zero) options, whatever tenantID and
\* clientID are, and nothing else: no parser, no client-certificate or
\* client-secret constructor. It returns the chain that call built, or, when
\* the call failed, a nil credential and the call's error wrapped.
C13_NilCredentialGivesDefaultChain ==
    (mat.pc \in {"chain", "returned"} /\ mat.credential = NilCredential) =>
        /\ Len(mat.calls) = 1
        /\ mat.calls[1].fn = "GetDefaultChainedToken"
        /\ mat.calls[1].args = <<ZeroOptions>>
        /\ build.options = ZeroOptions
        /\ \E ok \in [1..4 -> BOOLEAN] : opts = DefaultResolvers(ZeroOptions, ok)
        /\ mat.pc = "returned" =>
             /\ mat.calls[1].out = build.ret
             /\ build.ret.err = Nil =>
                  /\ mat.ret = [cred |-> build.ret.chain, err |-> Nil]
                  /\ mat.ret.cred.type = "ChainedTokenCredential"
             /\ build.ret.err # Nil =>
                  /\ mat.ret.cred = NilCred
                  /\ mat.ret.err # Nil
                  /\ mat.ret.err.kind = "wrapped"
                  /\ mat.ret.err.cause = build.ret.err

C13_Witness ==
    /\ mat.pc = "returned"
    /\ mat.credential = NilCredential
    /\ mat.tenantID = "tenantB"
    /\ build.ret.err = AggregationError
    /\ mat.ret.cred = NilCred
    /\ mat.ret.err.cause = AggregationError

-----------------------------------------------------------------------------
(* Properties of GetDefaultChainedToken, checked under SpecChain *)

\* the azidentity constructor a resolver's result comes from
ResolverConstructor(r) ==
    IF r.err # Nil THEN r.err.of
    ELSE IF r.cred.type = "retryableManagedIdentityCredential" THEN r.cred.mic.type
    ELSE r.cred.type

\* C14: whatever options GetDefaultChainedToken is given, nil or not, the
\* resolvers it hands to BuildChainedToken are exactly four, in the order Azure
\* CLI, environment, managed identity, workload identity; the credential of
\* the managed-identity resolver is the retry wrapper with timeout 5 (seconds)
\* and 3 attempts, and no other resolver's credential is the retry wrapper.
C14_DefaultResolversFixed ==
    build.options # NoOptions =>
        /\ Len(opts) = 4
        /\ [k \in 1..4 |-> ResolverConstructor(opts[k])] =
             <<"AzureCLICredential", "EnvironmentCredential",
               "ManagedIdentityCredential", "WorkloadIdentityCredential">>
        /\ opts[3].err = Nil =>
             /\ opts[3].cred.type = "retryableManagedIdentityCredential"
             /\ opts[3].cred.timeout = 5
             /\ opts[3].cred.attempts = 3
        /\ \A k \in {1, 2, 4} :
             opts[k].err = Nil => opts[k].cred.type # "retryableManagedIdentityCredential"

C14_Witness ==
    /\ build.options = NilOptions
    /\ build.pc = "returned"
    /\ build.ret.err = Nil
    /\ Len(build.ret.chain.sources) = 4
    /\ build.ret.chain.sources[3].type = "retryableManagedIdentityCredential"
    /\ build.ret.chain.sources[4].type = "WorkloadIdentityCredential"

-----------------------------------------------------------------------------
(* Properties of multierr.Errors, checked under SpecErrors *)

\* the Error() messages of the errors of es
Messages(es) == {ErrorText(es[i]) : i \in DOMAIN es}

\* v is an Errors collection (neither nil nor one of the stored errors)
IsCollection(v) == v # Nil /\ v.type = "*multierr.Errors"

\* C15: Deduplicate returns nil when the collection holds no errors, the error
\* itself when the stored errors have exactly one distinct message, and an
\* Errors collection only when they have more than one.
C15_DeduplicateNilSingleOrCollection ==
    me.op = "Deduplicate" =>
        /\ Cardinality(Messages(me.Errors)) = 0 => me.ret = Nil
        /\ Cardinality(Messages(me.Errors)) = 1 =>
             /\ ~IsCollection(me.ret)
             /\ \E i \in DOMAIN me.Errors : me.ret = me.Errors[i]
        /\ IsCollection(me.ret) => Cardinality(Messages(me.Errors)) > 1

\* C16: the collection holds exactly the non-nil errors passed to Add so far,
\* in the order passed; so when only nils were passed it is empty, IsEmpty
\* returns true and Deduplicate returns nil.
C16_AddKeepsNonNilInOrder ==
    /\ me.Errors = SelectSeq(me.passed, LAMBDA e : e # Nil)
    /\ me.op = "IsEmpty" => (me.ret <=> \A i \in DOMAIN me.passed : me.passed[i] = Nil)
    /\ (me.op = "Deduplicate" /\ \A i \in DOMAIN me.passed : me.passed[i] = Nil)
          => me.ret = Nil

C16_Witness ==
    /\ me.passed = <<ErrTest2, Nil, ErrTest1>>
    /\ me.Errors = <<ErrTest2, ErrTest1>>
    /\ me.op = "IsEmpty"
    /\ me.ret = FALSE

\* the result's errors are exactly one stored error for each distinct message
OnePerMessage(r, es) ==
    /\ IsCollection(r)
    /\ Len(r.Errors) = Cardinality(Messages(es))
    /\ Messages(r.Errors) = Messages(es)
    /\ \A i \in DOMAIN r.Errors : \E j \in DOMAIN es : r.Errors[i] = es[j]

\* what the step from me to me' passed to Add
NewlyPassed == SubSeq(me'.passed, Len(me.passed) + 1, Len(me'.passed))

\* an Add that passed only nils and errors whose message was already present
AddedNothingNew ==
    /\ me'.op = "Add"
    /\ \A i \in DOMAIN NewlyPassed :
         NewlyPassed[i] = Nil \/ ErrorText(NewlyPassed[i]) \in Messages(me.Errors)

\* the last error of es whose message is s
LastWith(es, s) ==
    es[CHOOSE j \in DOMAIN es :
          /\ ErrorText(es[j]) = s
          /\ \A k \in DOMAIN es : ErrorText(es[k]) = s => k <= j]

\* C17 as stated: Deduplicate's result holds exactly one stored error per
\* distinct message; an Add of only nils and errors whose message is already
\* present leaves what Deduplicate returns unchanged; Deduplicate leaves the
\* collection as it was.
C17_SameMessageAddKeepsResult ==
    /\ [](me.op = "Deduplicate" /\ me.Errors # <<>> => OnePerMessage(me.ret, me.Errors))
    /\ [][AddedNothingNew => Deduplicate(me'.Errors) = Deduplicate(me.Errors)]_vars
    /\ [][me'.op = "Deduplicate" => me'.Errors = me.Errors]_vars

\* C17 amended: Deduplicate's result holds exactly one stored error per
\* distinct message, namely the one stored last with that message, in any
\* order. An Add of only nils and errors whose message is already present
\* leaves the messages of the result and their number unchanged, and leaves
\* what Deduplicate returns unchanged when every error it passed equals the
\* last one stored with its message (as in Add(e, nil, e) against Add(e)).
\* Deduplicate leaves the collection as it was.
C17_DeduplicateKeepsLastPerMessage ==
    /\ [](me.op = "Deduplicate" /\ me.Errors # <<>> =>
            /\ OnePerMessage(me.ret, me.Errors)
            /\ \A i \in DOMAIN me.ret.Errors :
                 me.ret.Errors[i] = LastWith(me.Errors, ErrorText(me.ret.Errors[i])))
    /\ [][AddedNothingNew =>
            /\ {Messages(r.Errors) : r \in Deduplicate(me'.Errors) \ {Nil}}
                 = {Messages(r.Errors) : r \in Deduplicate(me.Errors) \ {Nil}}
            /\ {Len(r.Errors) : r \in Deduplicate(me'.Errors) \ {Nil}}
                 = {Len(r.Errors) : r \in Deduplicate(me.Errors) \ {Nil}}
            /\ (\A i \in DOMAIN NewlyPassed :
                  NewlyPassed[i] # Nil =>
                    NewlyPassed[i] = LastWith(me.Errors, ErrorText(NewlyPassed[i])))
                 => Deduplicate(me'.Errors) = Deduplicate(me.Errors)]_vars
    /\ [][me'.op = "Deduplicate" => me'.Errors = me.Errors]_vars

C17_Witness ==
    /\ me.passed = <<ErrTest1, Nil, ErrOther1>>
    /\ me.op = "Deduplicate"
    /\ me.ret = ErrorsOf(<<ErrOther1>>)

-----------------------------------------------------------------------------
(* Properties of echolog.LoggingMiddleware, checked under SpecMiddleware *)

\* the events of kind ev among es
EventsOf(es, ev) == SelectSeq(es, LAMBDA e : e.ev = ev)

\* the position of the first event of kind ev in es (0: none)
PositionOf(es, ev) ==
    IF \E i \in DOMAIN es : es[i].ev = ev
    THEN CHOOSE i \in DOMAIN es : es[i].ev = ev /\ \A j \in 1..(i - 1) : es[j].ev # ev
    ELSE 0

\* C18: whenever next returns an error, the handler returns that same error,
\* and c.Error is called with it exactly once if HandleError is true and not
\* at all if it is false.
C18_ErrorReturnedAndHandled ==
    (mw.pc = "handled" /\ mw.request.nextErr # Nil) =>
        /\ mw.ret = mw.request.nextErr
        /\ EventsOf(mw.events, "c.Error") =
             (IF mw.config.HandleError
              THEN <<Event("c.Error", mw.request.nextErr)>> ELSE <<>>)

-----------------------------------------------------------------------------
(* Properties of cookie.New, checked under SpecCookie *)

\* C20: cookie.New names the cookie with the name argument if that is not
\* empty and with config.Name otherwise, and returns nil exactly when both
\* are empty; on a non-nil result Value, Path, Domain, MaxAge, HttpOnly,
\* Secure and SameSite are the inputs, and Expires is set exactly when MaxAge
\* is not 0: to time.Unix(1, 0) when MaxAge < 0, to the time of the call plus
\* MaxAge seconds when MaxAge > 0.
C20_CookieFromConfig ==
    ck.pc = "returned" =>
        /\ ck.ret = NilCookie <=> (ck.name = "" /\ ck.config.Name = "")
        /\ ck.ret # NilCookie =>
             /\ ck.ret.Name = (IF ck.name # "" THEN ck.name ELSE ck.config.Name)
             /\ ck.ret.Value = ck.value
             /\ ck.ret.Path = ck.config.Path
             /\ ck.ret.Domain = ck.config.Domain
             /\ ck.ret.MaxAge = ck.config.MaxAge
             /\ ck.ret.HttpOnly = ck.config.HTTPOnly
             /\ ck.ret.Secure = ck.config.Secure
             /\ ck.ret.SameSite = ck.config.SameSite
             /\ ck.ret.Expires # ZeroTime <=> ck.config.MaxAge # 0
             /\ ck.config.MaxAge < 0 => ck.ret.Expires = Unix(1, 0)
             /\ ck.config.MaxAge > 0 =>
                  ck.ret.Expires = Instant(TimeNow(ck.at).ticks + ck.config.MaxAge * Second)

-----------------------------------------------------------------------------
(* BuildChainedToken without a credential, checked under SpecChain *)

\* C30: BuildChainedToken has no emptiness check of its own: when every
\* resolver failed, or none was supplied, the aggregation call is still made,
\* with the empty list, and its result is what BuildChainedToken returns: an
\* error and no chain when the aggregation call rejects the list. A chain of
\* zero credentials is returned only if the aggregation call accepted the
\* empty list.
C30_EmptyListGoesToAggregation ==
    /\ (build.pc = "returned" /\ \A k \in 1..Len(opts) : opts[k].err # Nil)
            => /\ build.agg.called
               /\ build.agg.sources = <<>>
               /\ build.ret = build.agg.out
               /\ build.agg.out.err # Nil
                    => build.ret.err # Nil /\ build.ret.chain = NilChain
    /\ (build.pc = "returned" /\ build.ret.err = Nil /\ build.ret.chain # NilChain)
            => (build.ret.chain.sources = <<>>
                    => /\ build.agg.called
                       /\ build.agg.sources = <<>>
                       /\ build.agg.out.err = Nil)

\* both resolvers failed and the aggregation call rejected the empty list
C30_Witness ==
    /\ build.pc = "returned"
    /\ Len(opts) = 2
    /\ \A k \in 1..2 : opts[k].err # Nil
    /\ build.agg.called
    /\ build.agg.sources = <<>>
    /\ build.ret = [chain |-> NilChain, err |-> AggregationError]

-----------------------------------------------------------------------------
(* Further properties of the retry wrapper, checked under Spec *)

\* mic.GetToken failed and its error tells of an exceeded deadline
IsDeadlineFailure(e) == e # Nil /\ Contains(e.msg, DeadlineText)

\* C22 as stated: whenever an attempt fails because a deadline was exceeded,
\* the error recorded for it is a credential-unavailable error, whatever the
\* timeout of the instance and whatever the type of the error.
C22_DeadlineFailureIsUnavailable ==
    \A p \in Callers : \A k \in DOMAIN call[p].hist :
        IsDeadlineFailure(call[p].hist[k].raw.err)
            => call[p].hist[k].err.kind = "credentialUnavailableError"

\* C22 amended: the error recorded for an attempt is the credential-unavailable
\* error "managed identity request timed out" exactly when the attempt ran in
\* the timeout > 0 branch and mic.GetToken returned an
\* AuthenticationFailedError whose message contains "context deadline
\* exceeded"; in every other case (timeout <= 0, or another error type) the
\* error of mic.GetToken is recorded as it is.
C22_TimedAuthFailureIsUnavailable ==
    \A p \in Callers : \A k \in DOMAIN call[p].hist :
        LET h == call[p].hist[k]
        IN  IF /\ h.timed
               /\ IsDeadlineFailure(h.raw.err)
               /\ h.raw.err.kind = "AuthenticationFailedError"
            THEN h.err = TimedOut /\ h.err.kind = "credentialUnavailableError"
            ELSE h.err = h.raw.err

C22_Witness ==
    /\ Len(call["a"].hist) = 2
    /\ call["a"].hist[1].timed
    /\ call["a"].hist[1].raw.err = AuthFailedDeadline
    /\ call["a"].hist[1].err = TimedOut
    /\ call["a"].hist[2].raw.err = PlainDeadline
    /\ call["a"].hist[2].err = PlainDeadline

\* C23 as stated: an attempt that fails with an AuthenticationFailedError is
\* the last invocation of the underlying credential in its call.
C23_AuthFailedNotRetried ==
    \A p \in Callers : \A k \in DOMAIN call[p].hist :
        (call[p].hist[k].err # Nil
            /\ call[p].hist[k].err.kind = "AuthenticationFailedError")
            => k = Len(call[p].hist)

\* C23 amended: an attempt that fails with an AuthenticationFailedError is
\* retried like any other failure: in a finished call it is followed by another
\* invocation of the underlying credential exactly when it was not the last of
\* the max(1, attempts) attempts.
C23_AuthFailedRetriedWhileAttemptsRemain ==
    \A p \in Callers :
        call[p].pc = "done" =>
            \A k \in DOMAIN call[p].hist :
                (call[p].hist[k].err # Nil
                    /\ call[p].hist[k].err.kind = "AuthenticationFailedError")
                    => (Len(call[p].hist) > k <=> k < CoerceAttempts(cfg.attempts))

C23_Witness ==
    /\ call["a"].pc = "done"
    /\ Len(call["a"].hist) = 2
    /\ call["a"].hist[1].err = AuthFailed
    /\ call["a"].hist[2].raw.err = Nil

\* C24 as stated: a GetToken call changes no field of its instance other than
\* timeout; attempts keeps its value, for every configured value.
C24_GetTokenKeepsAttempts == [][t'.attempts = t.attempts]_vars

\* C25: every GetToken call uses at least one attempt: a call that is past
\* its entry runs with attempts >= 1, and on an instance configured with
\* attempts <= 0 a finished call has invoked the underlying credential exactly
\* once and, when that invocation failed, returns a joined error whose only
\* cause is the error of that invocation.
C25_AtLeastOneAttempt ==
    \A p \in Callers :
        /\ call[p].pc # "idle" => t.attempts >= 1
        /\ call[p].pc = "done" => Len(call[p].hist) >= 1
        /\ (call[p].pc = "done" /\ cfg.attempts <= 0) =>
            /\ Len(call[p].hist) = 1
            /\ call[p].hist[1].err # Nil =>
                /\ call[p].ret.tk = ZeroToken
                /\ call[p].ret.err # Nil
                /\ call[p].ret.err.kind = "joined"
                /\ call[p].ret.err.causes = <<call[p].hist[1].err>>
            /\ call[p].hist[1].err = Nil => call[p].ret.err = Nil

C25_Witness ==
    /\ cfg.attempts = -1
    /\ call["a"].pc = "done"
    /\ Len(call["a"].hist) = 1
    /\ call["a"].ret.err # Nil
    /\ call["a"].ret.err.causes = <<AuthFailed>>

\* C26: while timeout > 0, the deadline of every attempt is derived at the
\* start of that attempt from the caller's context, the context GetToken was
\* called with: it is the caller's deadline when that is earlier than the
\* start of the attempt plus timeout, and the start of the attempt plus
\* timeout otherwise. The context handed to the underlying credential carries
\* that deadline; the context of an earlier attempt plays no part in it.
C26_AttemptDeadlineDerivedAfresh ==
    [][\A p \in Callers :
          /\ (call[p].pc = "l283" /\ call'[p].pc = "l286" /\ t.timeout > 0)
                => call'[p].ctx1 =
                       IF call[p].ctx.has /\ call[p].ctx.at < now + t.timeout
                       THEN call[p].ctx
                       ELSE Deadline(now + t.timeout)
          /\ (call[p].pc = "l287" /\ call'[p].pc = "l289")
                => /\ call'[p].c.has
                   /\ call'[p].c.at = call[p].ctx1.at]_vars

\* the second attempt of a call, after a first that ended with deadline
\* exceeded, runs under a later deadline than the first
C26_Witness ==
    /\ t.timeout > 0
    /\ call["a"].pc = "l289"
    /\ call["a"].i = 1
    /\ call["a"].hist[1].raw.err = PlainDeadline
    /\ call["a"].hist[1].c.at <= now
    /\ call["a"].c.at > call["a"].hist[1].c.at
    /\ call["a"].c.at = now + t.timeout

-----------------------------------------------------------------------------
(* Termination of the retry wrapper, checked under SpecFair *)

\* C27: every GetToken call whose invocations of the underlying credential
\* return ends, with a token (Succeeded) or with the joined errors
\* (Exhausted), after at most max(1, attempts) invocations; within a call the
\* attempt index never goes down, moves by one at a time, and every attempt
\* is invoked once.
C27_GetTokenTerminates ==
    /\ [](\A p \in Callers :
            LET n == IF cfg.attempts < 1 THEN 1 ELSE cfg.attempts
            IN  /\ Len(call[p].hist) <= n
                /\ call[p].i <= n
                /\ call[p].pc = "done" =>
                    \/ call[p].ret.err = Nil /\ call[p].ret.tk # ZeroToken
                    \/ /\ call[p].ret.err # Nil
                       /\ call[p].ret.err.kind = "joined"
                       /\ Len(call[p].hist) = n
                /\ call[p].pc \notin {"idle", "done"}
                    => Len(call[p].hist) = call[p].i)
    /\ [][\A p \in Callers :
            (call[p].pc # "idle" /\ call'[p].pc # "idle")
                => /\ call'[p].i \in {call[p].i, call[p].i + 1}
                   /\ Len(call'[p].hist) \in {Len(call[p].hist), Len(call[p].hist) + 1}
                   /\ call'[p].i = call[p].i + 1
                        => Len(call'[p].hist) = Len(call[p].hist) + 1]_vars
    /\ \A p \in {"a"} : (call[p].pc # "idle") ~> (call[p].pc = "done")

\* a call has ended Exhausted after the greatest number of attempts
C27_Witness ==
    /\ cfg.attempts = MaxAttempts
    /\ call["a"].pc = "done"
    /\ call["a"].ret.err # Nil
    /\ Len(call["a"].hist) = MaxAttempts
    /\ call["a"].i = MaxAttempts

-----------------------------------------------------------------------------
(* Cancellation and failure in the retry wrapper, checked under Spec *)

\* the caller's context is done: its deadline has passed
Expired(ctx) == ctx.has /\ ctx.at <= now

\* C28: GetToken does not look at the caller's context between attempts: a
\* call ends without a token only after max(1, attempts) invocations of the
\* underlying credential, also when the caller's context was already done
\* before the first attempt or became done before a later one; while attempts
\* remain, a failure is followed by the next attempt whatever the state of
\* the caller's context, and that attempt runs under a context derived from
\* the caller's: one that is done as well.
C28_ExhaustedOnlyAfterAllAttempts ==
    [][\A p \in Callers :
          LET n == IF cfg.attempts < 1 THEN 1 ELSE cfg.attempts
          IN  /\ (call[p].pc \notin {"idle", "done"}
                    /\ call'[p].pc = "done" /\ call'[p].ret.err # Nil)
                    => Len(call'[p].hist) = n
              /\ (Len(call'[p].hist) = Len(call[p].hist) + 1
                    /\ call'[p].hist[Len(call'[p].hist)].err # Nil
                    /\ Len(call'[p].hist) < n)
                    => call'[p].pc = "loop"
              /\ (call[p].pc = "loop" /\ call[p].i < n /\ call'[p] # call[p])
                    => call'[p].pc = "l283"
              /\ (call[p].pc \in {"l289", "l303"} /\ Expired(call[p].ctx))
                    => /\ call[p].c.has
                       /\ call[p].c.at <= call[p].ctx.at]_vars

\* a call whose context was done before its first attempt has made every one
\* of its attempts
C28_Witness ==
    /\ cfg.attempts = MaxAttempts
    /\ call["a"].ctx = Deadline(0)
    /\ call["a"].pc = "done"
    /\ call["a"].ret.err # Nil
    /\ Len(call["a"].hist) = MaxAttempts
    /\ \A k \in 1..MaxAttempts :
        call["a"].hist[k].c.has /\ call["a"].hist[k].c.at = 0

\* C29: only a successful attempt relaxes the timeout: the timeout field
\* changes in no step other than one in which an attempt of the timeout > 0
\* branch succeeds and ends its call with a token, so a call in which every
\* attempt fails ends with the timeout it began with, and the next call on the
\* instance applies the same per-attempt timeout.
C29_OnlySuccessRelaxesTimeout ==
    [][/\ t'.timeout # t.timeout
            => \E p \in Callers :
                /\ call[p].pc = "l289"
                /\ call'[p].pc = "done"
                /\ call'[p].ret.err = Nil
                /\ call'[p].hist[Len(call'[p].hist)].raw.err = Nil
       /\ \A p \in Callers :
            (Len(call'[p].hist) = Len(call[p].hist) + 1
                /\ call'[p].hist[Len(call'[p].hist)].raw.err # Nil)
                => t'.timeout = t.timeout
       /\ \A p \in Callers :
            (call[p].pc = "loop" /\ call'[p].pc = "done")
                => /\ call'[p].ret.err # Nil
                   /\ t'.timeout = t.timeout]_vars

\* a call whose attempts all ran in the timeout > 0 branch and failed has
\* ended Exhausted, and the timeout is the configured one
C29_Witness ==
    /\ cfg.timeout > 0
    /\ cfg.attempts = 2
    /\ call["a"].pc = "done"
    /\ call["a"].ret.err # Nil
    /\ Len(call["a"].hist) = 2
    /\ \A k \in 1..2 : call["a"].hist[k].timed /\ call["a"].hist[k].raw.err # Nil
    /\ t.timeout = cfg.timeout

-----------------------------------------------------------------------------
(* Properties of concurrent GetToken calls, checked under SpecConcurrent *)

\* C21: with GetToken calls of several goroutines running on one instance,
\* an attempt that took the timeout > 0 branch (line 286) derives its deadline
\* (line 287) from a timeout that is still positive, never from a 0 another
\* call's successful attempt has written in between.
C21_TimedBranchDerivesFromPositiveTimeout ==
    [][\A p \in Callers :
          (call[p].pc = "l287" /\ call'[p].pc = "l289")
              => /\ t.timeout > 0
                 /\ call'[p].c = WithTimeout(call[p].ctx1, cfg.timeout, now)]_vars

====
